---- MODULE Spec2Model ----
(***************************************************************************)
(* Model of the xDS resource decoding layer of grpc-go:                    *)
(*   - parseEDSRespProto / parseDropPolicy / parseEndpoints                *)
(*     (xds/internal/balancer/clusterresolver/testutil_test.go)            *)
(*   - clusterResourceType.Decode, ClusterResourceData.Equal,              *)
(*     delegatingClusterWatcher and WatchCluster                           *)
(*     (xds/internal/xdsclient/xdsresource/cluster_resource_type.go)       *)
(* and of the interceptor chains ChainUnaryServer (interceptor.go),        *)
(* ChainADNClientProcessors and ChainADNServerProcessor.                   *)
(***************************************************************************)
EXTENDS Integers, Sequences, FiniteSets, TLC

(***************************************************************************)
(* Bounds of the model.                                                    *)
(***************************************************************************)
MaxDrops == 2
MaxLocalities == 2
MaxPriority == 3
MaxWatches == 2
MaxEvents == 2
MaxChain == 3

(***************************************************************************)
(* Go values shared by all parts.                                          *)
(***************************************************************************)
\* The nil error.
NilError == [kind |-> "nil"]

\* Sequences over S of length at most n.
SeqUpTo(S, n) == UNION {[1..k -> S] : k \in 0..n}

(***************************************************************************)
(* EDS: the ClusterLoadAssignment proto message handed to                  *)
(* parseEDSRespProto.                                                      *)
(***************************************************************************)
\* locality.GetLocality() == nil
NilLocality == [IsNil |-> TRUE]

\* typepb.FractionalPercent_DenominatorType; "UNRECOGNIZED" stands for any
\* enum number outside the three declared ones.
DenominatorTypes == {"HUNDRED", "TEN_THOUSAND", "MILLION", "UNRECOGNIZED"}

DropOverloads ==
    [Category : {"lb"}, Numerator : {50}, Denominator : DenominatorTypes]

LbEndpoint1 ==
    [HealthStatus |-> 1, Address |-> "10.0.0.1", PortValue |-> 8080,
     LoadBalancingWeight |-> 3]
LbEndpoint2 ==
    [HealthStatus |-> 2, Address |-> "::1", PortValue |-> 443,
     LoadBalancingWeight |-> 5]

\* Hosts that net.JoinHostPort puts in brackets (they contain ':' or '%').
HostsWithColon == {"::1"}

\* The locality entries of the input, without their priority.
LocalityShapes ==
    { [Locality |-> NilLocality, LoadBalancingWeight |-> 1,
       LbEndpoints |-> <<LbEndpoint1>>],
      [Locality |-> [Region |-> "r", Zone |-> "z", SubZone |-> "a"],
       LoadBalancingWeight |-> 2,
       LbEndpoints |-> <<LbEndpoint1, LbEndpoint2>>],
      [Locality |-> [Region |-> "r", Zone |-> "z", SubZone |-> "b"],
       LoadBalancingWeight |-> 4,
       LbEndpoints |-> << >>] }

LocalityLbEndpoints ==
    { [Locality |-> s.Locality, Priority |-> p,
       LoadBalancingWeight |-> s.LoadBalancingWeight,
       LbEndpoints |-> s.LbEndpoints] : s \in LocalityShapes, p \in 0..MaxPriority }

ClusterLoadAssignments ==
    [DropOverloads : SeqUpTo(DropOverloads, MaxDrops),
     Endpoints : SeqUpTo(LocalityLbEndpoints, MaxLocalities)]

\* xdsresource.EndpointsUpdate{}
ZeroEndpointsUpdate == [Drops |-> << >>, Localities |-> << >>]

(***************************************************************************)
(* EDS: the parser.                                                        *)
(***************************************************************************)
Digits == <<"0", "1", "2", "3", "4", "5", "6", "7", "8", "9">>

\* strconv.Itoa for non-negative integers.
RECURSIVE Itoa(_)
Itoa(n) ==
    IF n < 10 THEN Digits[n + 1] ELSE Itoa(n \div 10) \o Digits[(n % 10) + 1]

\* net.JoinHostPort
JoinHostPort(host, port) ==
    IF host \in HostsWithColon
    THEN "[" \o host \o "]:" \o port
    ELSE host \o ":" \o port

parseAddress(address, portValue) == JoinHostPort(address, Itoa(portValue))

\* A plausible slip: an unknown denominator unit falls back to 100.
parseDropPolicy_default100(dropPolicy) ==
    [Category |-> dropPolicy.Category,
     Numerator |-> dropPolicy.Numerator,
     Denominator |->
        CASE dropPolicy.Denominator = "TEN_THOUSAND" -> 10000
          [] dropPolicy.Denominator = "MILLION" -> 1000000
          [] OTHER -> 100]

parseDropPolicy(dropPolicy) ==
    [Category |-> dropPolicy.Category,
     Numerator |-> dropPolicy.Numerator,
     Denominator |->
        CASE dropPolicy.Denominator = "HUNDRED" -> 100
          [] dropPolicy.Denominator = "TEN_THOUSAND" -> 10000
          [] dropPolicy.Denominator = "MILLION" -> 1000000
          [] OTHER -> 0]

parseEndpoints(lbEndpoints) ==
    [k \in 1..Len(lbEndpoints) |->
        [HealthStatus |-> lbEndpoints[k].HealthStatus,
         Address |-> parseAddress(lbEndpoints[k].Address, lbEndpoints[k].PortValue),
         Weight |-> lbEndpoints[k].LoadBalancingWeight]]

\* A plausible slip: each drop policy is put in front of the earlier ones.
dropLoop_prepend(dropOverloads) ==
    [k \in 1..Len(dropOverloads) |->
        parseDropPolicy(dropOverloads[Len(dropOverloads) + 1 - k])]

\* The first loop of parseEDSRespProto: ret.Drops after all drop policies.
dropLoop(dropOverloads) ==
    [k \in 1..Len(dropOverloads) |-> parseDropPolicy(dropOverloads[k])]

\* A plausible slip: a priority that was already seen is rejected.
RECURSIVE localityLoop_rejectsDuplicate(_, _, _, _)
localityLoop_rejectsDuplicate(endpoints, i, ret, priorities) ==
    IF i > Len(endpoints)
    THEN [ret |-> ret, priorities |-> priorities, err |-> NilError]
    ELSE LET locality == endpoints[i]
             l == locality.Locality
         IN IF l = NilLocality
            THEN [ret |-> ret, priorities |-> priorities,
                  err |-> [kind |-> "LocalityWithoutID", locality |-> locality]]
            ELSE IF locality.Priority \in priorities
            THEN [ret |-> ret, priorities |-> priorities,
                  err |-> [kind |-> "DuplicatePriority", locality |-> locality]]
            ELSE localityLoop_rejectsDuplicate(endpoints, i + 1,
                    [ret EXCEPT !.Localities = Append(@,
                        [ID |-> [Region |-> l.Region, Zone |-> l.Zone,
                                 SubZone |-> l.SubZone],
                         Endpoints |-> parseEndpoints(locality.LbEndpoints),
                         Weight |-> locality.LoadBalancingWeight,
                         Priority |-> locality.Priority])],
                    priorities \cup {locality.Priority})

\* The second loop of parseEDSRespProto, from entry i on: the local ret, the
\* priorities seen and the error the loop returned with (NilError when it
\* ran to the end).
RECURSIVE localityLoop(_, _, _, _)
localityLoop(endpoints, i, ret, priorities) ==
    IF i > Len(endpoints)
    THEN [ret |-> ret, priorities |-> priorities, err |-> NilError]
    ELSE LET locality == endpoints[i]
             l == locality.Locality
         IN IF l = NilLocality
            THEN [ret |-> ret, priorities |-> priorities,
                  err |-> [kind |-> "LocalityWithoutID", locality |-> locality]]
            ELSE localityLoop(endpoints, i + 1,
                    [ret EXCEPT !.Localities = Append(@,
                        [ID |-> [Region |-> l.Region, Zone |-> l.Zone,
                                 SubZone |-> l.SubZone],
                         Endpoints |-> parseEndpoints(locality.LbEndpoints),
                         Weight |-> locality.LoadBalancingWeight,
                         Priority |-> locality.Priority])],
                    priorities \cup {locality.Priority})

\* No priority is missing.
NoMissing == 0 - 1

RECURSIVE missingFrom(_, _)
missingFrom(priorities, i) ==
    IF i >= Cardinality(priorities) THEN NoMissing
    ELSE IF i \notin priorities THEN i
    ELSE missingFrom(priorities, i + 1)

\* A plausible slip: the scan starts at priority 1.
missingPriority_from1(priorities) == missingFrom(priorities, 1)

\* A plausible slip: the scan reports the number of priorities, not i.
missingPriority_reportsLen(priorities) ==
    IF missingFrom(priorities, 0) = NoMissing THEN NoMissing
    ELSE Cardinality(priorities)

\* The third loop of parseEDSRespProto: the first i in 0..len(priorities)-1
\* that is not a key of priorities, NoMissing when there is none.
missingPriority(priorities) == missingFrom(priorities, 0)

\* A plausible slip: the failure paths return the partly filled ret.
parseEDSRespProto_partial(m) ==
    LET ret0 == [ZeroEndpointsUpdate EXCEPT !.Drops = dropLoop(m.DropOverloads)]
        loop == localityLoop(m.Endpoints, 1, ret0, {})
        missing == missingPriority(loop.priorities)
    IN  IF loop.err # NilError
        THEN [update |-> loop.ret, err |-> loop.err, local |-> loop.ret]
        ELSE IF missing # NoMissing
        THEN [update |-> loop.ret,
              err |-> [kind |-> "PriorityMissing", priority |-> missing,
                       priorities |-> loop.priorities],
              local |-> loop.ret]
        ELSE [update |-> loop.ret, err |-> NilError, local |-> loop.ret]

\* parseEDSRespProto: update and err are the two returned values, local is
\* the value the local variable ret holds when the function returns.
parseEDSRespProto(m) ==
    LET ret0 == [ZeroEndpointsUpdate EXCEPT !.Drops = dropLoop(m.DropOverloads)]
        loop == localityLoop(m.Endpoints, 1, ret0, {})
        missing == missingPriority(loop.priorities)
    IN  IF loop.err # NilError
        THEN [update |-> ZeroEndpointsUpdate, err |-> loop.err, local |-> loop.ret]
        ELSE IF missing # NoMissing
        THEN [update |-> ZeroEndpointsUpdate,
              err |-> [kind |-> "PriorityMissing", priority |-> missing,
                       priorities |-> loop.priorities],
              local |-> loop.ret]
        ELSE [update |-> loop.ret, err |-> NilError, local |-> loop.ret]

(***************************************************************************)
(* CDS: the Any envelopes handed to Decode.                                *)
(***************************************************************************)
ClusterTypeURL == "type.googleapis.com/envoy.config.cluster.v3.Cluster"
ListenerTypeURL == "type.googleapis.com/envoy.config.listener.v3.Listener"

\* Bytes that do not parse as a Cluster message.
Garbage == [garbage |-> TRUE]

\* The Cluster messages on the wire: a name (possibly unset), a load
\* balancing policy (only ROUND_ROBIN passes validation) and the name of the
\* certificate provider instance of its security configuration ("" when the
\* cluster has none).
WireClusters ==
    [Name : {"", "c1", "c2"}, LbPolicy : {"ROUND_ROBIN", "MAGLEV"},
     InstanceName : {"", "certA"}]

Anys ==
    {[TypeUrl |-> ClusterTypeURL, Value |-> v] : v \in {Garbage} \cup WireClusters}
    \cup {[TypeUrl |-> ListenerTypeURL, Value |-> [Name |-> "c1"]]}

\* A nil *anypb.Any.
NilAny == [nilAny |-> TRUE]

\* A nil *SecurityConfig.
NilSecurityConfig == [nilSecurityConfig |-> TRUE]

\* ClusterUpdate{}
ZeroClusterUpdate ==
    [ClusterName |-> "", SecurityCfg |-> NilSecurityConfig, Raw |-> NilAny]

\* The decode options: the bootstrap configuration is the set of
\* certificate provider instances it configures.
DecodeOptions == [BootstrapConfig : {{}, {"certA"}}]

\* unmarshalClusterResource: the name, the ClusterUpdate and the error.
unmarshalClusterResource(r) ==
    IF r.TypeUrl # ClusterTypeURL
    THEN [name |-> "", cluster |-> ZeroClusterUpdate,
          err |-> [kind |-> "UnexpectedResourceType", typeURL |-> r.TypeUrl]]
    ELSE IF r.Value = Garbage
    THEN [name |-> "", cluster |-> ZeroClusterUpdate,
          err |-> [kind |-> "UnmarshalFailed"]]
    ELSE IF r.Value.LbPolicy # "ROUND_ROBIN"
    THEN [name |-> r.Value.Name, cluster |-> ZeroClusterUpdate,
          err |-> [kind |-> "UnexpectedLbPolicy", policy |-> r.Value.LbPolicy]]
    ELSE [name |-> r.Value.Name,
          cluster |->
            [ClusterName |-> r.Value.Name,
             SecurityCfg |->
                IF r.Value.InstanceName = "" THEN NilSecurityConfig
                ELSE [IdentityInstanceName |-> r.Value.InstanceName],
             Raw |-> r],
          err |-> NilError]

\* securityConfigValidator: the certificate provider instance a security
\* configuration names must be configured in the bootstrap configuration.
securityConfigValidator(bc, sc) ==
    IF sc = NilSecurityConfig THEN NilError
    ELSE IF sc.IdentityInstanceName \notin bc
    THEN [kind |-> "InstanceMissingInBootstrap",
          instance |-> sc.IdentityInstanceName]
    ELSE NilError

(***************************************************************************)
(* CDS: resource data values.  A ResourceData interface value is its       *)
(* dynamic type, the address it points to (0 for a nil pointer) and the    *)
(* struct at that address.                                                 *)
(***************************************************************************)
\* The nil ResourceData interface value.
NilInterface == [type |-> "nil"]

\* &ClusterResourceData{Resource: cu}, allocated at addr.
NewClusterResourceData(addr, cu) ==
    [type |-> "*ClusterResourceData", ptr |-> addr, Resource |-> cu]

\* (*ClusterResourceData)(nil)
NilClusterResourceData == NewClusterResourceData(0, ZeroClusterUpdate)

\* A nil *DecodeResult.
NilDecodeResult == [nilDecodeResult |-> TRUE]

\* A plausible slip: the placeholder of a validation failure keeps the
\* decoded cluster.
Decode_leaks(opts, resource, addr) ==
    LET u == unmarshalClusterResource(resource)
    IN  IF u.name = ""
        THEN [result |-> NilDecodeResult, err |-> u.err, validated |-> FALSE]
        ELSE IF u.err # NilError
        THEN [result |-> [Name |-> u.name,
                          Resource |-> NewClusterResourceData(addr, ZeroClusterUpdate)],
              err |-> u.err, validated |-> FALSE]
        ELSE LET verr == securityConfigValidator(opts.BootstrapConfig,
                                                 u.cluster.SecurityCfg)
             IN [result |-> [Name |-> u.name,
                             Resource |-> NewClusterResourceData(addr, u.cluster)],
                 err |-> verr, validated |-> TRUE]

\* clusterResourceType.Decode, allocating its ClusterResourceData at addr:
\* the returned *DecodeResult and error, and whether securityConfigValidator
\* was called.
Decode(opts, resource, addr) ==
    LET u == unmarshalClusterResource(resource)
    IN  IF u.name = ""
        THEN [result |-> NilDecodeResult, err |-> u.err, validated |-> FALSE]
        ELSE IF u.err # NilError
        THEN [result |-> [Name |-> u.name,
                          Resource |-> NewClusterResourceData(addr, ZeroClusterUpdate)],
              err |-> u.err, validated |-> FALSE]
        ELSE LET verr == securityConfigValidator(opts.BootstrapConfig,
                                                 u.cluster.SecurityCfg)
             IN IF verr # NilError
                THEN [result |-> [Name |-> u.name,
                                  Resource |-> NewClusterResourceData(addr, ZeroClusterUpdate)],
                      err |-> verr, validated |-> TRUE]
                ELSE [result |-> [Name |-> u.name,
                                  Resource |-> NewClusterResourceData(addr, u.cluster)],
                      err |-> NilError, validated |-> TRUE]

\* proto.Equal on two *anypb.Any: an invalid (nil) message equals only
\* another invalid message; valid messages are compared field by field.
protoEqual(x, y) ==
    IF x = NilAny \/ y = NilAny
    THEN x = NilAny /\ y = NilAny
    ELSE x.TypeUrl = y.TypeUrl /\ x.Value = y.Value

\* (*ClusterResourceData).Raw: reading c.Resource through a nil c panics.
Raw(c) ==
    IF c.ptr = 0 THEN [panic |-> TRUE, ret |-> NilAny]
    ELSE [panic |-> FALSE, ret |-> c.Resource.Raw]

\* A plausible slip: two resources are equal only when they are one object.
Equal_identity(c, other) ==
    [panic |-> FALSE, ret |-> other # NilInterface /\ c.ptr = other.ptr]

\* A plausible slip: the decoded fields are compared along with Raw.
Equal_fields(c, other) ==
    IF c.ptr = 0 /\ other = NilInterface THEN [panic |-> FALSE, ret |-> TRUE]
    ELSE IF (c.ptr = 0) # (other = NilInterface) THEN [panic |-> FALSE, ret |-> FALSE]
    ELSE [panic |-> other.ptr = 0,
          ret |-> other.ptr # 0 /\ c.Resource = other.Resource]

\* (*ClusterResourceData).Equal: c is the receiver, a *ClusterResourceData,
\* other a ResourceData interface value; panic is set when the call faults.
Equal(c, other) ==
    IF c.ptr = 0 /\ other = NilInterface THEN [panic |-> FALSE, ret |-> TRUE]
    ELSE IF (c.ptr = 0) # (other = NilInterface) THEN [panic |-> FALSE, ret |-> FALSE]
    ELSE LET raw == Raw(other)
         IN IF raw.panic THEN [panic |-> TRUE, ret |-> FALSE]
            ELSE [panic |-> FALSE, ret |-> protoEqual(c.Resource.Raw, raw.ret)]

(***************************************************************************)
(* CDS: the delegating watcher.                                            *)
(***************************************************************************)
\* data.(*ClusterResourceData): the assertion panics unless the dynamic
\* type of data is *ClusterResourceData.
narrow(data) ==
    IF data.type = "*ClusterResourceData"
    THEN [panic |-> FALSE, c |-> data]
    ELSE [panic |-> TRUE, c |-> NilClusterResourceData]

\* delegatingClusterWatcher.OnUpdate: the calls made on the typed watcher
\* and whether the call panicked.
OnUpdate(d, data) ==
    LET n == narrow(data)
    IN  IF n.panic THEN [panic |-> TRUE, calls |-> << >>]
        ELSE [panic |-> FALSE,
              calls |-> <<[watcher |-> d.watcher, method |-> "OnUpdate", arg |-> n.c]>>]

\* A plausible slip: the error is swallowed and reported as a missing
\* resource.
OnError_asDoesNotExist(d, err) ==
    [panic |-> FALSE,
     calls |-> <<[watcher |-> d.watcher, method |-> "OnResourceDoesNotExist",
                  arg |-> NilError]>>]

\* delegatingClusterWatcher.OnError
OnError(d, err) ==
    [panic |-> FALSE,
     calls |-> <<[watcher |-> d.watcher, method |-> "OnError", arg |-> err]>>]

\* delegatingClusterWatcher.OnResourceDoesNotExist
OnResourceDoesNotExist(d) ==
    [panic |-> FALSE,
     calls |-> <<[watcher |-> d.watcher, method |-> "OnResourceDoesNotExist",
                  arg |-> NilError]>>]

(***************************************************************************)
(* Interceptor chains.                                                     *)
(***************************************************************************)
\* The three chain constructors.
ChainKinds == {"ChainUnaryServer", "ChainADNClientProcessors", "ChainADNServerProcessor"}

\* What an interceptor of the chain does, besides calling its handler once:
\* "forward" hands on the context and the request it got and returns what
\* the handler returned; "decorate" adds its mark to the context and to the
\* request it hands on and to what the handler returned.
InterceptorBehaviours == {"forward", "decorate"}

\* The errors the final handler (or invoker) returns.
HandlerErrors == {NilError, [kind |-> "HandlerError"]}

\* The handler (or invoker) given to the chained interceptor.
FinalHandler == [kind |-> "handler"]

\* interceptors[i] with handler as its handler argument; a call of the
\* closure func(currentCtx, currentReq) the loop makes is this call.
InterceptorWith(i, handler) == [kind |-> "interceptor", i |-> i, handler |-> handler]

\* A plausible slip: the loop stops one interceptor early (i > 1).
RECURSIVE unaryServerLoop_stopsEarly(_, _)
unaryServerLoop_stopsEarly(i, currHandler) ==
    IF i > 1
    THEN unaryServerLoop_stopsEarly(i - 1, InterceptorWith(i, currHandler))
    ELSE currHandler

\* ChainUnaryServer: for i := n - 1; i > 0; i-- { currHandler = closure }
RECURSIVE unaryServerLoop(_, _)
unaryServerLoop(i, currHandler) ==
    IF i > 0
    THEN unaryServerLoop(i - 1, InterceptorWith(i, currHandler))
    ELSE currHandler

\* The call the interceptor returned by ChainUnaryServer(interceptors...)
\* makes when it is called with handler; n is len(interceptors).
ChainUnaryServer(n, handler) ==
    IF n = 0 THEN handler
    ELSE IF n = 1 THEN InterceptorWith(0, handler)
    ELSE InterceptorWith(0, unaryServerLoop(n - 1, handler))

\* ChainADNClientProcessors: for i := n - 1; i > 0; i-- { currInvoker = closure }
RECURSIVE adnClientLoop(_, _)
adnClientLoop(i, currInvoker) ==
    IF i > 0
    THEN adnClientLoop(i - 1, InterceptorWith(i, currInvoker))
    ELSE currInvoker

\* The call the processor returned by ChainADNClientProcessors(processors...)
\* makes when it is called with invoker.
ChainADNClientProcessors(n, invoker) ==
    IF n = 0 THEN invoker
    ELSE IF n = 1 THEN InterceptorWith(0, invoker)
    ELSE InterceptorWith(0, adnClientLoop(n - 1, invoker))

\* ChainADNServerProcessor: for i := n - 1; i > 0; i-- { currHandler = closure }
RECURSIVE adnServerLoop(_, _)
adnServerLoop(i, currHandler) ==
    IF i > 0
    THEN adnServerLoop(i - 1, InterceptorWith(i, currHandler))
    ELSE currHandler

\* The call the processor returned by ChainADNServerProcessor(processors...)
\* makes when it is called with handler.
ChainADNServerProcessor(n, handler) ==
    IF n = 0 THEN handler
    ELSE IF n = 1 THEN InterceptorWith(0, handler)
    ELSE InterceptorWith(0, adnServerLoop(n - 1, handler))

\* The chained function of the given kind called with handler.
ChainOf(kind, n, handler) ==
    CASE kind = "ChainUnaryServer" -> ChainUnaryServer(n, handler)
      [] kind = "ChainADNClientProcessors" -> ChainADNClientProcessors(n, handler)
      [] kind = "ChainADNServerProcessor" -> ChainADNServerProcessor(n, handler)

\* The context and the request the chained function is called with.
InitialArgs == [ctx |-> << >>, req |-> << >>]

\* The context and the request interceptor i of the given behaviour hands
\* to its handler.
HandedOn(behaviour, i, args) ==
    IF behaviour = "decorate"
    THEN [ctx |-> Append(args.ctx, i), req |-> Append(args.req, i)]
    ELSE args

\* What interceptor i of the given behaviour returns when its handler
\* returned ret.
ReturnedBy(behaviour, i, ret) ==
    IF behaviour = "decorate" THEN [ret EXCEPT !.by = Append(@, i)] ELSE ret

\* No return value yet.
NoReturn == [by |-> << >>, seen |-> InitialArgs, err |-> NilError]

\* No chain is called.
NoChain == [kind |-> "none", n |-> 0, interceptors |-> << >>, err |-> NilError]

(***************************************************************************)
(* State.                                                                  *)
(***************************************************************************)
VARIABLES
    edsPC,      \* "input": parseEDSRespProto not yet called; "done": returned
    edsM,       \* the message given to parseEDSRespProto
    edsUpdate,  \* the EndpointsUpdate it returned
    edsErr,     \* the error it returned
    edsLocal,   \* its local variable ret at the return
    decPrev,    \* the Decode call before the last one
    decLast,    \* the last Decode call: its arguments and what it returned
    eqPC,       \* "input": Equal not yet called; "done": returned
    eqC,        \* the receiver of the Equal call
    eqOther,    \* the argument of the Equal call
    eqRet,      \* what the Equal call returned, or that it panicked
    watches,    \* the producer's registrations, in the order they were made
    delivered,  \* the calls the producer made on delegating watchers
    received,   \* the calls the delegating watchers made on typed watchers
    watchPanic, \* a call on a delegating watcher panicked
    watchCalls, \* the WatchCluster calls: their arguments, the cancel function
                \* each returned and whether the caller invoked it
    closed,     \* the producer was torn down
    cancelFault, \* a call of a cancel function panicked or did not return
    chainPC,    \* "idle", "call": a call is being made, "return": a call
                \* returns, "done": the chained function returned
    chainIn,    \* the chain: its constructor, its interceptors, the error
                \* of the final handler
    chainCall,  \* the call being made: the function and its arguments
    chainStack, \* the interceptors waiting for their handler to return
    chainLog,   \* the interceptors and handlers started, with the context
                \* and request each was given, in the order they started
    chainRet    \* the value being returned

edsVars == <<edsPC, edsM, edsUpdate, edsErr, edsLocal>>
decVars == <<decPrev, decLast>>
eqVars == <<eqPC, eqC, eqOther, eqRet>>
watchVars == <<watches, delivered, received, watchPanic, watchCalls, closed, cancelFault>>

chainVars == <<chainPC, chainIn, chainCall, chainStack, chainLog, chainRet>>

vars == <<edsVars, decVars, eqVars, watchVars, chainVars>>

(***************************************************************************)
(* EDS: one call of parseEDSRespProto.                                     *)
(***************************************************************************)
EDSIdle ==
    /\ edsPC = "input"
    /\ edsM = [DropOverloads |-> << >>, Endpoints |-> << >>]
    /\ edsUpdate = ZeroEndpointsUpdate
    /\ edsErr = NilError
    /\ edsLocal = ZeroEndpointsUpdate

EDSInit ==
    /\ edsPC = "input"
    /\ edsM \in ClusterLoadAssignments
    /\ edsUpdate = ZeroEndpointsUpdate
    /\ edsErr = NilError
    /\ edsLocal = ZeroEndpointsUpdate

ParseEDS ==
    /\ edsPC = "input"
    /\ LET r == parseEDSRespProto(edsM)
       IN /\ edsUpdate' = r.update
          /\ edsErr' = r.err
          /\ edsLocal' = r.local
    /\ edsPC' = "done"
    /\ UNCHANGED edsM

(***************************************************************************)
(* CDS: successive Decode calls.                                           *)
(***************************************************************************)
\* No Decode call was made.
NoCall == [called |-> FALSE]

\* The addresses a new ClusterResourceData may be allocated at.
Addrs == {1, 2}

\* The address of the ClusterResourceData a Decode call returned.
AddrsOf(call) ==
    IF call = NoCall THEN {}
    ELSE IF call.result = NilDecodeResult THEN {}
    ELSE {call.result.Resource.ptr}

DecInit ==
    /\ decPrev = NoCall
    /\ decLast = NoCall

\* clusterType.Decode(opts, resource); the object of the call before the
\* last one is no longer referenced, so its address may be used again.
DoDecode(opts, resource) ==
    LET addr == CHOOSE a \in Addrs \ AddrsOf(decLast) :
                    \A b \in Addrs \ AddrsOf(decLast) : a <= b
        r == Decode(opts, resource, addr)
    IN  /\ decPrev' = decLast
        /\ decLast' = [called |-> TRUE, opts |-> opts, resource |-> resource,
                       result |-> r.result, err |-> r.err, validated |-> r.validated]

(***************************************************************************)
(* CDS: one call of Equal.                                                 *)
(***************************************************************************)
\* The ClusterUpdate values Equal is called on: two decoded field values
\* and three raw envelopes.
EqualAnys ==
    {[TypeUrl |-> ClusterTypeURL,
      Value |-> [Name |-> n, LbPolicy |-> "ROUND_ROBIN", InstanceName |-> ""]] :
        n \in {"c1", "c2"}}

EqualClusterUpdates ==
    [ClusterName : {"c1", "c2"}, SecurityCfg : {NilSecurityConfig},
     Raw : {NilAny} \cup EqualAnys]

EqualReceivers ==
    {NilClusterResourceData}
    \cup {NewClusterResourceData(1, cu) : cu \in EqualClusterUpdates}

EqualArguments ==
    {NilInterface, NilClusterResourceData}
    \cup {NewClusterResourceData(a, cu) : a \in Addrs, cu \in EqualClusterUpdates}

EqIdle ==
    /\ eqPC = "input"
    /\ eqC = NilClusterResourceData
    /\ eqOther = NilInterface
    /\ eqRet = [panic |-> FALSE, ret |-> FALSE]

EqInit ==
    /\ eqPC = "input"
    /\ eqC \in EqualReceivers
    /\ eqOther \in EqualArguments
    /\ eqRet = [panic |-> FALSE, ret |-> FALSE]

CallEqual ==
    /\ eqPC = "input"
    /\ eqRet' = Equal(eqC, eqOther)
    /\ eqPC' = "done"
    /\ UNCHANGED <<eqC, eqOther>>

(***************************************************************************)
(* CDS: watch registration and the producer that dispatches to watchers.   *)
(***************************************************************************)
\* The cluster names watched and the typed watchers of the callers.
ClusterNames == {"c1", "c2"}
ClusterWatchers == {"w1", "w2"}
\* The WatchCluster calls made: two watchers of one cluster, and one watcher
\* of two clusters.
WatchRequests ==
    {r \in [name : ClusterNames, watcher : ClusterWatchers] :
        r.name = "c1" \/ r.watcher = "w1"}
\* The decode options of the producer: a bootstrap configuration without
\* certificate provider instances.
ProducerOptions == [BootstrapConfig |-> {}]

\* The errors the producer reports to watchers.
WatchErrors == {[kind |-> "ConnectionFailure"]}

\* Producer.WatchResource: the producer records the registration; the
\* cancel function it returns is the index of the registration.
WatchResource(regs, rType, name, watcher) ==
    Append(regs, [rType |-> rType, name |-> name, watcher |-> watcher,
                  cancelled |-> FALSE])

\* Decode of the resource type a registration was made with: Decode of
\* clusterType for the cluster type, and for the listener type a decoder
\* that returns a *ListenerResourceData.
DecodeOfType(rType, opts, resource, addr) ==
    IF rType = ClusterTypeURL THEN Decode(opts, resource, addr)
    ELSE IF resource.TypeUrl = rType /\ resource.Value # Garbage
    THEN [result |-> [Name |-> resource.Value.Name,
                      Resource |-> [type |-> "*ListenerResourceData", ptr |-> addr,
                                    Resource |-> [Raw |-> resource]]],
          err |-> NilError, validated |-> FALSE]
    ELSE [result |-> NilDecodeResult, err |-> [kind |-> "UnmarshalFailed"],
          validated |-> FALSE]

\* The cancel function WatchResource returns for registration i.
cancelOf(i) == [reg |-> i]

\* A plausible slip: the delegating cluster watcher is registered for the
\* listener resource type.
WatchCluster_listenerType(name, w) ==
    /\ ~watchPanic
    /\ ~cancelFault
    /\ Len(watches) < MaxWatches
    /\ LET delegator == [id |-> Len(watches) + 1, watcher |-> w]
           regs == WatchResource(watches, ListenerTypeURL, name, delegator)
       IN /\ watches' = regs
          /\ watchCalls' = Append(watchCalls,
                [name |-> name, watcher |-> w, cancel |-> cancelOf(Len(regs)),
                 cancelInvoked |-> FALSE])
    /\ UNCHANGED <<delivered, received, watchPanic, closed, cancelFault>>

\* A plausible slip: one package-level delegating watcher is used for every
\* registration instead of a new one.
WatchCluster_sharedDelegator(name, w) ==
    /\ ~watchPanic
    /\ ~cancelFault
    /\ Len(watches) < MaxWatches
    /\ LET delegator == [id |-> 1, watcher |-> w]
           regs == WatchResource(watches, ClusterTypeURL, name, delegator)
       IN /\ watches' = regs
          /\ watchCalls' = Append(watchCalls,
                [name |-> name, watcher |-> w, cancel |-> cancelOf(Len(regs)),
                 cancelInvoked |-> FALSE])
    /\ UNCHANGED <<delivered, received, watchPanic, closed, cancelFault>>

\* WatchCluster(p, name, w): a new delegatingClusterWatcher around w (id is
\* its address), registered for the cluster resource type; the caller keeps
\* the cancel function WatchResource returned.
WatchCluster(name, w) ==
    /\ ~watchPanic
    /\ ~cancelFault
    /\ Len(watches) < MaxWatches
    /\ LET delegator == [id |-> Len(watches) + 1, watcher |-> w]
           regs == WatchResource(watches, ClusterTypeURL, name, delegator)
       IN /\ watches' = regs
          /\ watchCalls' = Append(watchCalls,
                [name |-> name, watcher |-> w, cancel |-> cancelOf(Len(regs)),
                 cancelInvoked |-> FALSE])
    /\ UNCHANGED <<delivered, received, watchPanic, closed, cancelFault>>

\* A cancel function has its effect on a producer that is not torn down
\* and on a registration that was not cancelled before.
Effective(regs, isClosed, cancel) == ~isClosed /\ ~regs[cancel.reg].cancelled

\* The cancel function of the producer: the outcomes a call can have, each
\* the registrations after the call and whether the call faulted. The first
\* call on a live producer releases the registration. What a later call, or
\* a call after the teardown, does is decided by the producer alone:
\* WatchCluster hands its cancel function on as it is, so both outcomes,
\* a call without effect and a call that faults, are kept.
cancelWatch(regs, isClosed, cancel) ==
    IF Effective(regs, isClosed, cancel)
    THEN {[regs |-> [regs EXCEPT ![cancel.reg].cancelled = TRUE], fault |-> FALSE]}
    ELSE {[regs |-> regs, fault |-> f] : f \in BOOLEAN}

\* The caller of the c-th WatchCluster call invokes the cancel function the
\* call returned.
Cancel(c) ==
    /\ ~watchPanic
    /\ ~cancelFault
    /\ c \in 1..Len(watchCalls)
    /\ \E r \in cancelWatch(watches, closed, watchCalls[c].cancel) :
        /\ watches' = r.regs
        /\ cancelFault' = r.fault
    /\ watchCalls' = [watchCalls EXCEPT ![c].cancelInvoked = TRUE]
    /\ UNCHANGED <<delivered, received, watchPanic, closed>>

\* The producer is torn down.
Close ==
    /\ ~watchPanic
    /\ ~cancelFault
    /\ ~closed
    /\ closed' = TRUE
    /\ UNCHANGED <<watches, delivered, received, watchPanic, watchCalls, cancelFault>>

\* The producer calls a method of the delegating watcher of registration i.
Dispatch(i, method, arg, out) ==
    /\ delivered' = Append(delivered, [reg |-> i, method |-> method, arg |-> arg])
    /\ received' = received \o out.calls
    /\ watchPanic' = out.panic
    /\ UNCHANGED <<watches, watchCalls, closed, cancelFault>>

\* The producer can notify the watcher of registration i.
CanNotify(i) ==
    /\ ~watchPanic
    /\ ~cancelFault
    /\ ~closed
    /\ Len(delivered) < MaxEvents
    /\ i \in 1..Len(watches)
    /\ ~watches[i].cancelled

\* The producer received resource, decoded it with the resource type of
\* registration i and reports the decoded resource to its watcher.
ProducerUpdate(i, opts, resource) ==
    /\ CanNotify(i)
    /\ LET r == DecodeOfType(watches[i].rType, opts, resource, Len(delivered) + 1)
       IN /\ r.err = NilError
          /\ r.result # NilDecodeResult
          /\ r.result.Name = watches[i].name
          /\ Dispatch(i, "OnUpdate", r.result.Resource,
                      OnUpdate(watches[i].watcher, r.result.Resource))

ProducerError(i, err) ==
    /\ CanNotify(i)
    /\ Dispatch(i, "OnError", err, OnError(watches[i].watcher, err))

ProducerDoesNotExist(i) ==
    /\ CanNotify(i)
    /\ Dispatch(i, "OnResourceDoesNotExist", NilError,
                OnResourceDoesNotExist(watches[i].watcher))

(***************************************************************************)
(* A call of a chained interceptor.                                        *)
(***************************************************************************)
ChainIdle ==
    /\ chainPC = "idle"
    /\ chainIn = NoChain
    /\ chainCall = [target |-> FinalHandler, args |-> InitialArgs]
    /\ chainStack = << >>
    /\ chainLog = << >>
    /\ chainRet = NoReturn

\* A chain of n interceptors is built by the constructor of the given kind
\* and the function it returns is called with the final handler.
CallChain(kind, n, interceptors, err) ==
    /\ chainPC = "idle"
    /\ chainPC' = "call"
    /\ chainIn' = [kind |-> kind, n |-> n, interceptors |-> interceptors, err |-> err]
    /\ chainCall' = [target |-> ChainOf(kind, n, FinalHandler), args |-> InitialArgs]
    /\ UNCHANGED <<chainStack, chainLog, chainRet>>

\* The call being made is one of interceptors[i]: it starts, and calls its
\* handler.
InterceptorStarts ==
    /\ chainPC = "call"
    /\ chainCall.target.kind = "interceptor"
    /\ LET i == chainCall.target.i
       IN /\ chainLog' = Append(chainLog,
                [fn |-> "interceptor", i |-> i, args |-> chainCall.args])
          /\ chainStack' = Append(chainStack, i)
          /\ chainCall' = [target |-> chainCall.target.handler,
                           args |-> HandedOn(chainIn.interceptors[i], i, chainCall.args)]
    /\ UNCHANGED <<chainPC, chainIn, chainRet>>

\* The call being made is one of the final handler: it runs and returns.
HandlerRuns ==
    /\ chainPC = "call"
    /\ chainCall.target.kind = "handler"
    /\ chainLog' = Append(chainLog,
            [fn |-> "handler", i |-> chainIn.n, args |-> chainCall.args])
    /\ chainRet' = [by |-> << >>, seen |-> chainCall.args, err |-> chainIn.err]
    /\ chainPC' = "return"
    /\ UNCHANGED <<chainIn, chainCall, chainStack>>

\* The handler of the innermost waiting interceptor returned: the
\* interceptor returns.
InterceptorReturns ==
    /\ chainPC = "return"
    /\ chainStack # << >>
    /\ LET i == chainStack[Len(chainStack)]
       IN chainRet' = ReturnedBy(chainIn.interceptors[i], i, chainRet)
    /\ chainStack' = SubSeq(chainStack, 1, Len(chainStack) - 1)
    /\ UNCHANGED <<chainPC, chainIn, chainCall, chainLog>>

\* The chained function returns what its outermost call returned.
ChainReturns ==
    /\ chainPC = "return"
    /\ chainStack = << >>
    /\ chainPC' = "done"
    /\ UNCHANGED <<chainIn, chainCall, chainStack, chainLog, chainRet>>

(***************************************************************************)
(* The specifications.                                                     *)
(***************************************************************************)
WatchIdle ==
    /\ watches = << >>
    /\ delivered = << >>
    /\ received = << >>
    /\ watchPanic = FALSE
    /\ watchCalls = << >>
    /\ closed = FALSE
    /\ cancelFault = FALSE

\* One call of parseEDSRespProto on any bounded input.
SpecEDSInit == EDSInit /\ DecInit /\ EqIdle /\ WatchIdle /\ ChainIdle
SpecEDSNext == ParseEDS /\ UNCHANGED <<decVars, eqVars, watchVars, chainVars>>
SpecEDS == SpecEDSInit /\ [][SpecEDSNext]_vars

\* Any sequence of Decode calls.
SpecDecodeInit == EDSIdle /\ DecInit /\ EqIdle /\ WatchIdle /\ ChainIdle
SpecDecodeNext ==
    \E opts \in DecodeOptions, resource \in Anys :
        DoDecode(opts, resource) /\ UNCHANGED <<edsVars, eqVars, watchVars, chainVars>>
SpecDecode == SpecDecodeInit /\ [][SpecDecodeNext]_vars

\* One call of Equal on any bounded pair of values.
SpecEqualInit == EDSIdle /\ DecInit /\ EqInit /\ WatchIdle /\ ChainIdle
SpecEqualNext == CallEqual /\ UNCHANGED <<edsVars, decVars, watchVars, chainVars>>
SpecEqual == SpecEqualInit /\ [][SpecEqualNext]_vars

\* Watch registrations, cancellations and the producer's notifications.
SpecWatchInit == EDSIdle /\ DecInit /\ EqIdle /\ WatchIdle /\ ChainIdle
SpecWatchNext ==
    \/ \E r \in WatchRequests :
        WatchCluster(r.name, r.watcher) /\ UNCHANGED <<edsVars, decVars, eqVars, chainVars>>
    \/ \E c \in 1..MaxWatches :
        Cancel(c) /\ UNCHANGED <<edsVars, decVars, eqVars, chainVars>>
    \/ Close /\ UNCHANGED <<edsVars, decVars, eqVars, chainVars>>
    \/ \E i \in 1..MaxWatches, resource \in Anys :
        ProducerUpdate(i, ProducerOptions, resource) /\ UNCHANGED <<edsVars, decVars, eqVars, chainVars>>
    \/ \E i \in 1..MaxWatches, err \in WatchErrors :
        ProducerError(i, err) /\ UNCHANGED <<edsVars, decVars, eqVars, chainVars>>
    \/ \E i \in 1..MaxWatches :
        ProducerDoesNotExist(i) /\ UNCHANGED <<edsVars, decVars, eqVars, chainVars>>
SpecWatch == SpecWatchInit /\ [][SpecWatchNext]_vars

\* One call of a chained interceptor.
SpecChainInit == EDSIdle /\ DecInit /\ EqIdle /\ WatchIdle /\ ChainIdle
SpecChainNext ==
    \/ \E kind \in ChainKinds, n \in 0..MaxChain, err \in HandlerErrors :
        \E interceptors \in [0..(n - 1) -> InterceptorBehaviours] :
            CallChain(kind, n, interceptors, err)
                /\ UNCHANGED <<edsVars, decVars, eqVars, watchVars>>
    \/ InterceptorStarts /\ UNCHANGED <<edsVars, decVars, eqVars, watchVars>>
    \/ HandlerRuns /\ UNCHANGED <<edsVars, decVars, eqVars, watchVars>>
    \/ InterceptorReturns /\ UNCHANGED <<edsVars, decVars, eqVars, watchVars>>
    \/ ChainReturns /\ UNCHANGED <<edsVars, decVars, eqVars, watchVars>>
SpecChain == SpecChainInit /\ [][SpecChainNext]_vars

(***************************************************************************)
(* Properties of parseEDSRespProto (checked under SpecEDS).                *)
(***************************************************************************)
\* The priorities of the localities of an EndpointsUpdate.
PrioritiesOf(update) ==
    {update.Localities[k].Priority : k \in 1..Len(update.Localities)}

\* The priorities the input declares, and whether every entry has an ID.
InputPriorities == {edsM.Endpoints[k].Priority : k \in 1..Len(edsM.Endpoints)}
InputAllHaveID ==
    \A k \in 1..Len(edsM.Endpoints) : edsM.Endpoints[k].Locality # NilLocality

\* C1: whenever parseEDSRespProto returns a nil error, the set of distinct
\* priorities of the localities it returns is exactly {0, ..., N-1}, N being
\* the number of distinct priorities.
C1_PrioritiesContiguous ==
    (edsPC = "done" /\ edsErr = NilError) =>
        PrioritiesOf(edsUpdate) = 0..(Cardinality(PrioritiesOf(edsUpdate)) - 1)

\* A successful parse of two localities at the priorities 0 and 1.
C1_Witness ==
    /\ edsPC = "done"
    /\ edsErr = NilError
    /\ PrioritiesOf(edsUpdate) = {0, 1}

\* C2: when every locality has an identifier and the observed priorities
\* are not {0..N-1}, the parse fails with an error that carries the
\* smallest priority below N missing from the observed set, and the whole
\* observed set.
C2_GapErrorNamesMissing ==
    (/\ edsPC = "done"
     /\ InputAllHaveID
     /\ InputPriorities # 0..(Cardinality(InputPriorities) - 1)) =>
        /\ edsErr.kind = "PriorityMissing"
        /\ edsErr.priority \in 0..(Cardinality(InputPriorities) - 1)
        /\ edsErr.priority \notin InputPriorities
        /\ \A j \in 0..(edsErr.priority - 1) : j \in InputPriorities
        /\ edsErr.priorities = InputPriorities

\* Priorities {0,2}: the parse fails naming priority 1 and the set {0,2}.
C2_Witness ==
    /\ edsPC = "done"
    /\ InputAllHaveID
    /\ InputPriorities = {0, 2}
    /\ edsErr = [kind |-> "PriorityMissing", priority |-> 1, priorities |-> {0, 2}]

\* C3: on every failure the returned EndpointsUpdate is the zero value, and
\* a locality without identifier, at any position, makes the parse fail.
C3_FailureReturnsZero ==
    edsPC = "done" =>
        /\ edsErr # NilError => edsUpdate = ZeroEndpointsUpdate
        /\ ~InputAllHaveID => edsErr.kind = "LocalityWithoutID"

\* A locality without identifier in the last position, found after a drop
\* policy and a locality had been put into the local result.
C3_Witness ==
    /\ edsPC = "done"
    /\ edsErr.kind = "LocalityWithoutID"
    /\ Len(edsLocal.Drops) = 1
    /\ Len(edsLocal.Localities) = 1
    /\ edsUpdate = ZeroEndpointsUpdate

\* C4: every drop policy is converted with the denominator 100 for HUNDRED,
\* 10000 for TEN_THOUSAND, 1000000 for MILLION and 0 for any other unit;
\* category and numerator are copied.
C4_DropDenominatorExact ==
    edsPC = "done" =>
        /\ Len(edsLocal.Drops) = Len(edsM.DropOverloads)
        /\ \A k \in 1..Len(edsM.DropOverloads) :
            LET in == edsM.DropOverloads[k]
                out == edsLocal.Drops[k]
            IN /\ out.Category = in.Category
               /\ out.Numerator = in.Numerator
               /\ in.Denominator = "HUNDRED" => out.Denominator = 100
               /\ in.Denominator = "TEN_THOUSAND" => out.Denominator = 10000
               /\ in.Denominator = "MILLION" => out.Denominator = 1000000
               /\ in.Denominator \notin {"HUNDRED", "TEN_THOUSAND", "MILLION"}
                    => out.Denominator = 0

\* A drop policy with an unrecognized unit was converted to denominator 0.
C4_Witness ==
    /\ edsPC = "done"
    /\ Len(edsM.DropOverloads) = 1
    /\ edsM.DropOverloads[1].Denominator = "UNRECOGNIZED"
    /\ edsLocal.Drops[1] = [Category |-> "lb", Numerator |-> 50, Denominator |-> 0]

\* The Endpoint expected for each lb-endpoint of the inputs.
ExpectedEndpoint(lbEndpoint) ==
    IF lbEndpoint = LbEndpoint1
    THEN [HealthStatus |-> 1, Address |-> "10.0.0.1:8080", Weight |-> 3]
    ELSE [HealthStatus |-> 2, Address |-> "[::1]:443", Weight |-> 5]

\* The denominator expected for each unit.
ExpectedDenominator(unit) ==
    CASE unit = "HUNDRED" -> 100
      [] unit = "TEN_THOUSAND" -> 10000
      [] unit = "MILLION" -> 1000000
      [] OTHER -> 0

\* C13: on success drops[i] is built from the i-th drop policy and
\* localities[j] from the j-th locality entry, with its identifier, priority
\* and weight and one Endpoint per lb-endpoint in order; nothing is
\* dropped, duplicated or reordered.
C13_OrderAndCountPreserved ==
    (edsPC = "done" /\ edsErr = NilError) =>
        /\ Len(edsUpdate.Drops) = Len(edsM.DropOverloads)
        /\ \A i \in 1..Len(edsM.DropOverloads) :
            edsUpdate.Drops[i] =
                [Category |-> edsM.DropOverloads[i].Category,
                 Numerator |-> edsM.DropOverloads[i].Numerator,
                 Denominator |-> ExpectedDenominator(edsM.DropOverloads[i].Denominator)]
        /\ Len(edsUpdate.Localities) = Len(edsM.Endpoints)
        /\ \A j \in 1..Len(edsM.Endpoints) :
            LET in == edsM.Endpoints[j]
                out == edsUpdate.Localities[j]
            IN /\ out.ID = in.Locality
               /\ out.Priority = in.Priority
               /\ out.Weight = in.LoadBalancingWeight
               /\ Len(out.Endpoints) = Len(in.LbEndpoints)
               /\ \A k \in 1..Len(in.LbEndpoints) :
                    out.Endpoints[k] = ExpectedEndpoint(in.LbEndpoints[k])

\* Two different drop policies and two different localities, the first
\* with two endpoints, were parsed and kept in their order.
C13_Witness ==
    /\ edsPC = "done"
    /\ edsErr = NilError
    /\ Len(edsUpdate.Drops) = 2
    /\ edsUpdate.Drops[1].Denominator = 1000000
    /\ edsUpdate.Drops[2].Denominator = 100
    /\ Len(edsUpdate.Localities) = 2
    /\ edsUpdate.Localities[1].ID.SubZone = "a"
    /\ edsUpdate.Localities[2].ID.SubZone = "b"
    /\ Len(edsUpdate.Localities[1].Endpoints) = 2
    /\ edsUpdate.Localities[1].Endpoints[2].Address = "[::1]:443"

\* C14: the parse succeeds for every input in which all localities carry an
\* identifier and the priorities are contiguous from 0, keeping every drop
\* policy and every locality: also with no locality, with no drop policy,
\* and with several localities at the same priority.
C14_ValidInputsSucceed ==
    (/\ edsPC = "done"
     /\ InputAllHaveID
     /\ InputPriorities = 0..(Cardinality(InputPriorities) - 1)) =>
        /\ edsErr = NilError
        /\ Len(edsUpdate.Localities) = Len(edsM.Endpoints)
        /\ Len(edsUpdate.Drops) = Len(edsM.DropOverloads)
        /\ PrioritiesOf(edsUpdate) = InputPriorities

\* Two distinct localities at priority 0 and no drop policy: both kept.
C14_Witness ==
    /\ edsPC = "done"
    /\ edsErr = NilError
    /\ edsM.DropOverloads = << >>
    /\ edsUpdate.Drops = << >>
    /\ Len(edsUpdate.Localities) = 2
    /\ edsUpdate.Localities[1].ID # edsUpdate.Localities[2].ID
    /\ edsUpdate.Localities[1].Priority = 0
    /\ edsUpdate.Localities[2].Priority = 0

(***************************************************************************)
(* Properties of Decode (checked under SpecDecode).                        *)
(***************************************************************************)
\* What unmarshalling and validation say about the input of a Decode call.
UnmarshalOf(call) == unmarshalClusterResource(call.resource)
ValidatorOf(call) ==
    securityConfigValidator(call.opts.BootstrapConfig, UnmarshalOf(call).cluster.SecurityCfg)

\* The ClusterUpdate a Decode call returned.
UpdateOf(call) == call.result.Resource.Resource

\* The three outcomes of the Decode contract.
OutcomeNoResult(call) ==
    call.result = NilDecodeResult /\ call.err # NilError
OutcomeNamedFailure(call) ==
    /\ call.result # NilDecodeResult
    /\ call.result.Name # ""
    /\ UpdateOf(call) = ZeroClusterUpdate
    /\ call.err # NilError
OutcomeSuccess(call) ==
    /\ call.result # NilDecodeResult
    /\ call.result.Name # ""
    /\ UpdateOf(call) = UnmarshalOf(call).cluster
    /\ call.err = NilError

\* C5: every Decode call ends in exactly one of the three outcomes; it
\* never returns a missing DecodeResult together with a nil error.
C5_DecodeThreeOutcomes ==
    decLast.called =>
        /\ Cardinality({o \in {"none", "named", "ok"} :
                \/ o = "none" /\ OutcomeNoResult(decLast)
                \/ o = "named" /\ OutcomeNamedFailure(decLast)
                \/ o = "ok" /\ OutcomeSuccess(decLast)}) = 1
        /\ ~(decLast.result = NilDecodeResult /\ decLast.err = NilError)

\* C6: when unmarshalling yields a name and validation fails, in
\* unmarshalClusterResource or in securityConfigValidator, Decode returns
\* that name, a ClusterResourceData holding the zero ClusterUpdate and the
\* validation error; securityConfigValidator is called only after
\* unmarshalling returned no error.
C6_NamedFailureIsZero ==
    decLast.called =>
        LET u == UnmarshalOf(decLast)
        IN /\ decLast.validated => u.err = NilError
           /\ (u.name # "" /\ u.err # NilError) =>
                /\ decLast.result # NilDecodeResult
                /\ decLast.result.Name = u.name
                /\ decLast.result.Resource = NewClusterResourceData(
                        decLast.result.Resource.ptr, ZeroClusterUpdate)
                /\ decLast.result.Resource.ptr # 0
                /\ decLast.err = u.err
                /\ ~decLast.validated
           /\ (u.name # "" /\ u.err = NilError /\ ValidatorOf(decLast) # NilError) =>
                /\ decLast.result # NilDecodeResult
                /\ decLast.result.Name = u.name
                /\ decLast.result.Resource = NewClusterResourceData(
                        decLast.result.Resource.ptr, ZeroClusterUpdate)
                /\ decLast.result.Resource.ptr # 0
                /\ decLast.err = ValidatorOf(decLast)
                /\ decLast.validated

\* Cluster c1 was unmarshalled, its security configuration was rejected and
\* Decode returned the name with the zero ClusterUpdate.
C6_Witness ==
    /\ decLast.called
    /\ UnmarshalOf(decLast).err = NilError
    /\ UnmarshalOf(decLast).cluster # ZeroClusterUpdate
    /\ decLast.validated
    /\ decLast.err.kind = "InstanceMissingInBootstrap"
    /\ decLast.result # NilDecodeResult
    /\ decLast.result.Name = "c1"
    /\ UpdateOf(decLast) = ZeroClusterUpdate

\* An envelope is valid under opts when it unmarshals to a named cluster
\* that passes both validations.
ValidEnvelope(opts, resource) ==
    LET u == unmarshalClusterResource(resource)
    IN /\ u.name # ""
       /\ u.err = NilError
       /\ securityConfigValidator(opts.BootstrapConfig, u.cluster.SecurityCfg) = NilError

\* The last two Decode calls were given the same valid input.
SameValidInputTwice ==
    /\ decPrev.called
    /\ decLast.called
    /\ decPrev.opts = decLast.opts
    /\ decPrev.resource = decLast.resource
    /\ ValidEnvelope(decLast.opts, decLast.resource)

\* C9: two successive Decode calls on the same valid envelope with the same
\* options both succeed with the same name, and their resources are Equal
\* in both directions.
C9_DecodeTwiceEqual ==
    SameValidInputTwice =>
        /\ decPrev.err = NilError
        /\ decLast.err = NilError
        /\ decPrev.result # NilDecodeResult
        /\ decLast.result # NilDecodeResult
        /\ decPrev.result.Name = decLast.result.Name
        /\ Equal(decPrev.result.Resource, decLast.result.Resource)
                = [panic |-> FALSE, ret |-> TRUE]
        /\ Equal(decLast.result.Resource, decPrev.result.Resource)
                = [panic |-> FALSE, ret |-> TRUE]

\* Cluster c2 with a security configuration was decoded twice, into two
\* distinct ClusterResourceData objects.
C9_Witness ==
    /\ SameValidInputTwice
    /\ decLast.result # NilDecodeResult
    /\ decPrev.result # NilDecodeResult
    /\ decLast.result.Name = "c2"
    /\ UpdateOf(decLast).SecurityCfg # NilSecurityConfig
    /\ decPrev.result.Resource.ptr # decLast.result.Resource.ptr

(***************************************************************************)
(* Properties of Equal (checked under SpecEqual).                          *)
(***************************************************************************)
\* The receiver is a nil pointer; the argument is nil: the nil interface
\* value or a nil *ClusterResourceData.
ReceiverIsNil == eqC.ptr = 0
ArgumentIsNil == eqOther = NilInterface \/ eqOther.ptr = 0

\* C7: Equal returns true when receiver and argument are both nil, false
\* when exactly one of them is nil, and does not fault in these cases.
C7_EqualNil ==
    (eqPC = "done" /\ (ReceiverIsNil \/ ArgumentIsNil)) =>
        /\ ~eqRet.panic
        /\ (ReceiverIsNil /\ ArgumentIsNil) => eqRet.ret
        /\ (ReceiverIsNil # ArgumentIsNil) => ~eqRet.ret

\* C8: for two non-nil values Equal is true exactly when their raw
\* envelopes are equal, whatever their decoded fields are.
C8_EqualIsRawEquality ==
    (eqPC = "done" /\ ~ReceiverIsNil /\ ~ArgumentIsNil) =>
        /\ ~eqRet.panic
        /\ eqRet.ret <=> (eqC.Resource.Raw = eqOther.Resource.Raw)

\* Two values with the same raw envelope and different cluster names were
\* found equal.
C8_Witness ==
    /\ eqPC = "done"
    /\ ~ReceiverIsNil
    /\ ~ArgumentIsNil
    /\ eqC.Resource.Raw = eqOther.Resource.Raw
    /\ eqC.Resource.Raw # NilAny
    /\ eqC.Resource.ClusterName # eqOther.Resource.ClusterName
    /\ eqRet = [panic |-> FALSE, ret |-> TRUE]

(***************************************************************************)
(* Properties of the delegating watcher (checked under SpecWatch).         *)
(***************************************************************************)
\* C10: every OnUpdate call the producer makes on a delegating watcher
\* completes by calling OnUpdate of the typed watcher with the resource;
\* the type assertion never panics.
C10_NarrowingNeverFaults ==
    /\ ~watchPanic
    /\ Len(received) = Len(delivered)
    /\ \A k \in 1..Len(delivered) :
        delivered[k].method = "OnUpdate" =>
            received[k] = [watcher |-> watches[delivered[k].reg].watcher.watcher,
                           method |-> "OnUpdate", arg |-> delivered[k].arg]

\* The producer reported a decoded cluster and the typed watcher got it.
C10_Witness ==
    /\ Len(delivered) >= 1
    /\ delivered[1].method = "OnUpdate"
    /\ delivered[1].arg.Resource # ZeroClusterUpdate
    /\ Len(received) >= 1
    /\ received[1].method = "OnUpdate"
    /\ received[1].arg = delivered[1].arg

\* The calls in log that concern typed watcher w, each as method and payload;
\* WatcherOf(e) is the typed watcher call e of the log ends at.
CallsAt(log, WatcherOf(_), w) ==
    LET sel == SelectSeq(log, LAMBDA e : WatcherOf(e) = w)
    IN  [k \in 1..Len(sel) |-> [method |-> sel[k].method, arg |-> sel[k].arg]]

\* The typed watcher behind the delegating watcher a producer call was made on.
TypedWatcherOf(e) == watches[e.reg].watcher.watcher

\* The typed watcher a call was received by.
ReceiverOf(e) == e.watcher

\* C15: the calls a typed watcher receives are exactly the calls the
\* producer made on the delegating watchers wrapping it: one call for each,
\* of the same method, with the same payload, in the same order.
C15_DelegationOneToOne ==
    /\ Len(received) = Len(delivered)
    /\ \A w \in ClusterWatchers :
        CallsAt(received, ReceiverOf, w) = CallsAt(delivered, TypedWatcherOf, w)

\* One delegating watcher got an error and then an update, and its typed
\* watcher got the same two calls in that order.
C15_Witness ==
    /\ Len(delivered) = 2
    /\ delivered[1].reg = delivered[2].reg
    /\ delivered[1].method = "OnError"
    /\ delivered[2].method = "OnUpdate"
    /\ Len(received) = 2
    /\ received[1].method = "OnError"
    /\ received[1].arg = delivered[1].arg
    /\ received[2].method = "OnUpdate"
    /\ received[2].arg = delivered[2].arg

(***************************************************************************)
(* Properties of WatchCluster (checked under SpecWatch).                   *)
(***************************************************************************)
\* C16: every WatchCluster call makes one registration, for the cluster
\* resource type, with the name and a delegating watcher of its own around
\* the watcher it was given, and returns the cancel function of that
\* registration; the calls a typed watcher receives come from its own
\* registrations, and a registration is cancelled only by its own cancel
\* function.
C16_OneRegistrationPerCall ==
    /\ Len(watches) = Len(watchCalls)
    /\ \A i \in 1..Len(watches) :
        /\ i <= Len(watchCalls)
        /\ watches[i].rType = ClusterTypeURL
        /\ watches[i].name = watchCalls[i].name
        /\ watches[i].watcher.watcher = watchCalls[i].watcher
        /\ watchCalls[i].cancel = cancelOf(i)
        /\ watches[i].cancelled => watchCalls[i].cancelInvoked
    /\ \A i, j \in 1..Len(watches) :
        i # j => watches[i].watcher.id # watches[j].watcher.id
    /\ Len(received) = Len(delivered)
    /\ \A k \in 1..Len(delivered) :
        k <= Len(received) => received[k].watcher = watchCalls[delivered[k].reg].watcher

\* Two watchers were registered for one cluster, the first registration was
\* cancelled and then the second watcher, and only it, was notified.
C16_Witness ==
    /\ Len(watches) = 2
    /\ watches[1].name = watches[2].name
    /\ watches[1].watcher.watcher # watches[2].watcher.watcher
    /\ watches[1].cancelled
    /\ ~watches[2].cancelled
    /\ Len(delivered) >= 1
    /\ delivered[Len(delivered)].reg = 2
    /\ \A k \in 1..Len(received) : received[k].watcher = watches[2].watcher.watcher

(***************************************************************************)
(* Properties of the interceptor chains (checked under SpecChain).         *)
(***************************************************************************)
\* The marks of the decorating interceptors among interceptors[0..i], from
\* the innermost to the outermost.
RECURSIVE MarksOutward(_, _)
MarksOutward(interceptors, i) ==
    IF i < 0 THEN << >>
    ELSE (IF interceptors[i] = "decorate" THEN <<i>> ELSE << >>)
            \o MarksOutward(interceptors, i - 1)

\* C12: when the function built from n >= 2 interceptors has returned, the
\* interceptors started in the order 0, 1, ..., n-1 and the final handler
\* ran once, after them; the first interceptor got the context and request
\* of the call and every later one, and the handler, got what its
\* predecessor handed on; the value returned is the one the outermost
\* interceptor returned.
C12_ChainLeftToRight ==
    (chainPC = "done" /\ chainIn.n >= 2) =>
        /\ Len(chainLog) = chainIn.n + 1
        /\ \A k \in 1..chainIn.n :
            /\ k + 1 <= Len(chainLog)
            /\ chainLog[k].fn = "interceptor"
            /\ chainLog[k].i = k - 1
            /\ chainLog[k + 1].args =
                    HandedOn(chainIn.interceptors[k - 1], k - 1, chainLog[k].args)
        /\ chainLog[1].args = InitialArgs
        /\ chainLog[Len(chainLog)].fn = "handler"
        /\ chainRet = [by |-> MarksOutward(chainIn.interceptors, chainIn.n - 1),
                       seen |-> chainLog[Len(chainLog)].args,
                       err |-> chainIn.err]

\* A chain of three decorating interceptors built by ChainUnaryServer has
\* returned the error of the handler.
C12_Witness ==
    /\ chainPC = "done"
    /\ chainIn.kind = "ChainUnaryServer"
    /\ chainIn.n = 3
    /\ \A i \in 0..2 : chainIn.interceptors[i] = "decorate"
    /\ chainIn.err # NilError
    /\ Len(chainLog) = 4
    /\ chainLog[4].args.ctx = <<0, 1, 2>>
    /\ chainRet.by = <<2, 1, 0>>
    /\ chainRet.err = chainIn.err

====
